---- MODULE Spec2Model ----
(***************************************************************************)
(* Model of src/i2c_slave.c: the interrupt callbacks of an STM32 I2C slave *)
(* that exposes one 16-bit register (GET 0x08, SET 0x09).                  *)
(*                                                                         *)
(* The statics of the file are the state; every HAL callback is one        *)
(* action.  The HAL itself is the environment: it delivers the events and  *)
(* it stores a received byte at the address handed to the last             *)
(* HAL_I2C_Slave_Seq_Receive_IT call before it calls the RxCplt callback.  *)
(***************************************************************************)
EXTENDS Integers, Sequences, FiniteSets, TLC

\* ------------------------------------------------------------------ bounds
\* The controller stops sending once the fill count has reached this value
\* (the count is a uint8_t; the guard keeps the model finite).
MaxRxCount == 6
\* At most this many bus events are handled while one call of
\* I2C_SLAVE_Init is between its first and its last statement.
MaxRaceEvents == 4

\* ------------------------------------------------------- program constants
MODE_RECEIVING == 0
MODE_TRANSMITTING == 1
MODE_LISTENING == 2
BUFFER_SIZE == 5
GET_VOLTAGE_REG == 8
SET_VOLTAGE_REG == 9
InitialVoltage == 3542
UnknownRegByte == 255
TxResponseSize == 2
Uint8Mod == 256
Uint16Mod == 65536

\* Byte values the controller puts on the bus in the model: the sentinel
\* register id, the two register ids.
Bytes == {GET_VOLTAGE_REG, SET_VOLTAGE_REG}

\* No receive armed in the HAL.
NoXfer == {}
\* No value recorded by a history variable: outside the uint16_t range.
NoVal == Uint16Mod

VARIABLES
    slaveMode,        \* enum SLAVE_MODE_T slaveMode
    rxBuff,           \* uint8_t rxBuff[BUFFER_SIZE]
    rxBuffDataSize,   \* uint8_t rxBuffDataSize
    txBuff,           \* uint8_t txBuff[BUFFER_SIZE]
    txBuffDataSize,   \* uint8_t txBuffDataSize
    requestedReg,     \* uint8_t requestedReg
    fakeVoltage,      \* uint16_t fakeVoltage
    rxArmed,          \* HAL: {offset from rxBuff of the armed 1-byte receive}, or NoXfer
    txArmed,          \* HAL: a sequential transmit is armed
    cmds,             \* HAL calls made by the handler that ran last
    lastEvent,        \* the handler that ran last
    txn,              \* history: the bus events since the last stop
    done,             \* history: the completed transactions that end at the last stop
    pristine,         \* history: only register-only writes and reads since I2C_SLAVE_Init
    initPc,           \* the statement of I2C_SLAVE_Init the main thread is at, or "done"
    raceEvents        \* bus events handled since the running I2C_SLAVE_Init began

statics == <<slaveMode, rxBuff, rxBuffDataSize, txBuff, txBuffDataSize,
             requestedReg, fakeVoltage>>
hal == <<rxArmed, txArmed, cmds>>
history == <<lastEvent, txn, done, pristine>>
boot == <<initPc, raceEvents>>
vars == <<statics, hal, history, boot>>

BufIdx == 0 .. (BUFFER_SIZE - 1)
ZeroBuff == [i \in BufIdx |-> 0]

\* ------------------------------------------------------ Bus Port commands
\* HAL_I2C_EnableListen_IT(hi2c)
CmdListen == [op |-> "rearmListen", off |-> 0, count |-> 0, final |-> FALSE]
\* HAL_I2C_Slave_Seq_Receive_IT(hi2c, rxBuff + off, 1, I2C_NEXT_FRAME)
CmdReceive(off) == [op |-> "beginReceive", off |-> off, count |-> 1, final |-> FALSE]
\* HAL_I2C_Slave_Seq_Transmit_IT(hi2c, txBuff, n, I2C_LAST_FRAME)
CmdTransmit(n) == [op |-> "beginTransmit", off |-> 0, count |-> n, final |-> TRUE]

\* ------------------------------------------------------------ the statics
\* The statics as one record, for the operators that compute a handler's
\* effect on memory.
Mem == [slaveMode |-> slaveMode, rxBuff |-> rxBuff, rxBuffDataSize |-> rxBuffDataSize,
        txBuff |-> txBuff, txBuffDataSize |-> txBuffDataSize,
        requestedReg |-> requestedReg, fakeVoltage |-> fakeVoltage]

SetMem(m) ==
    /\ slaveMode' = m.slaveMode
    /\ rxBuff' = m.rxBuff
    /\ rxBuffDataSize' = m.rxBuffDataSize
    /\ txBuff' = m.txBuff
    /\ txBuffDataSize' = m.txBuffDataSize
    /\ requestedReg' = m.requestedReg
    /\ fakeVoltage' = m.fakeVoltage

\* ------------------------------------------------- Register Dispatcher
\* switch (requestedReg) of HAL_I2C_AddrCallback: the two bytes of the response.
BuildResponseLsbFirst(reg, volt) ==
    IF reg = GET_VOLTAGE_REG
    THEN <<volt % Uint8Mod, (volt \div Uint8Mod) % Uint8Mod>>
    ELSE <<UnknownRegByte, UnknownRegByte>>

BuildResponseSetReadable(reg, volt) ==
    IF reg \in {GET_VOLTAGE_REG, SET_VOLTAGE_REG}
    THEN <<(volt \div Uint8Mod) % Uint8Mod, volt % Uint8Mod>>
    ELSE <<UnknownRegByte, UnknownRegByte>>

BuildResponse(reg, volt) ==
    IF reg = GET_VOLTAGE_REG
    THEN <<(volt \div Uint8Mod) % Uint8Mod, volt % Uint8Mod>>
    ELSE <<UnknownRegByte, UnknownRegByte>>

DecodeVoltageLsbFirst(b1, b2) == ((b2 * Uint8Mod) + (b1 % Uint8Mod)) % Uint16Mod

\* fakeVoltage = (rxBuff[1] << 8 | rxBuff[2] & 0xFF), stored into a uint16_t.
\* b1 << 8 has its low 8 bits clear, so the bitwise or is a sum.
DecodeVoltage(b1, b2) == ((b1 * Uint8Mod) + (b2 % Uint8Mod)) % Uint16Mod

\* ------------------------------------------------------------- handlers
\* HAL_I2C_AddrCallback, TransferDirection == I2C_DIRECTION_RECEIVE
\* (the controller reads): memory after the handler.
AddrCallbackRead(m) ==
    LET r == BuildResponse(m.requestedReg, m.fakeVoltage)
    IN  [m EXCEPT !.slaveMode = MODE_TRANSMITTING,
                  !.txBuff = [@ EXCEPT ![0] = r[1], ![1] = r[2]],
                  !.txBuffDataSize = TxResponseSize,
                  !.requestedReg = 0]

AddrCallbackReadCmdsNextFrame(m) ==
    <<[CmdTransmit(AddrCallbackRead(m).txBuffDataSize) EXCEPT !.final = FALSE]>>

\* The HAL calls of that branch: transmit txBuffDataSize bytes, last frame.
AddrCallbackReadCmds(m) == <<CmdTransmit(AddrCallbackRead(m).txBuffDataSize)>>

AddrCallbackWriteResets(m) ==
    [m EXCEPT !.slaveMode = MODE_RECEIVING, !.rxBuff = ZeroBuff, !.rxBuffDataSize = 0]

\* HAL_I2C_AddrCallback, else branch (the controller writes).
AddrCallbackWrite(m) == [m EXCEPT !.slaveMode = MODE_RECEIVING]

\* The receive armed by the else branch: 1 byte at rxBuff + rxBuffDataSize.
AddrCallbackWriteOffset(m) == m.rxBuffDataSize

ListenCpltCallbackPayloadAlways(m) ==
    LET m1 == [m EXCEPT !.slaveMode = MODE_LISTENING]
        m2 == IF m1.rxBuffDataSize >= 1
              THEN [m1 EXCEPT !.requestedReg = m1.rxBuff[0],
                              !.fakeVoltage = DecodeVoltage(m1.rxBuff[1], m1.rxBuff[2])]
              ELSE m1
    IN  [m2 EXCEPT !.rxBuff = ZeroBuff, !.rxBuffDataSize = 0]

ListenCpltCallbackPayloadKeepsReg(m) ==
    LET m1 == [m EXCEPT !.slaveMode = MODE_LISTENING]
        m2 == IF m1.rxBuffDataSize = 1
              THEN [m1 EXCEPT !.requestedReg = m1.rxBuff[0]]
              ELSE IF m1.rxBuffDataSize > 1
                   THEN [m1 EXCEPT !.fakeVoltage = DecodeVoltage(m1.rxBuff[1], m1.rxBuff[2])]
                   ELSE m1
    IN  [m2 EXCEPT !.rxBuff = ZeroBuff, !.rxBuffDataSize = 0]

ListenCpltCallbackEmptySelects(m) ==
    LET m1 == [m EXCEPT !.slaveMode = MODE_LISTENING]
        m2 == IF m1.rxBuffDataSize <= 1
              THEN [m1 EXCEPT !.requestedReg = m1.rxBuff[0]]
              ELSE [m1 EXCEPT !.requestedReg = m1.rxBuff[0],
                              !.fakeVoltage = DecodeVoltage(m1.rxBuff[1], m1.rxBuff[2])]
    IN  [m2 EXCEPT !.rxBuff = ZeroBuff, !.rxBuffDataSize = 0]

\* HAL_I2C_ListenCpltCallback: memory after the handler.
ListenCpltCallback(m) ==
    LET m1 == [m EXCEPT !.slaveMode = MODE_LISTENING]
        m2 == IF m1.rxBuffDataSize = 1
              THEN [m1 EXCEPT !.requestedReg = m1.rxBuff[0]]
              ELSE IF m1.rxBuffDataSize > 1
                   THEN [m1 EXCEPT !.requestedReg = m1.rxBuff[0],
                                   !.fakeVoltage = DecodeVoltage(m1.rxBuff[1], m1.rxBuff[2])]
                   ELSE m1
    IN  [m2 EXCEPT !.rxBuff = ZeroBuff, !.rxBuffDataSize = 0]

\* HAL_I2C_SlaveRxCpltCallback: rxBuffDataSize++ on a uint8_t.  (The printf
\* before it only reads rxBuff[rxBuffDataSize].)
SlaveRxCpltCallback(m) == [m EXCEPT !.rxBuffDataSize = (@ + 1) % Uint8Mod]

RxCpltRearmsAlways(m) ==
    m.slaveMode \in {MODE_RECEIVING, MODE_TRANSMITTING, MODE_LISTENING}

\* if (slaveMode == MODE_RECEIVING) of HAL_I2C_SlaveRxCpltCallback: whether
\* the handler arms the next 1-byte receive.
RxCpltRearms(m) == m.slaveMode = MODE_RECEIVING

\* HAL_I2C_SlaveTxCpltCallback
SlaveTxCpltCallback(m) == [m EXCEPT !.txBuffDataSize = 0]

\* HAL_I2C_ErrorCallback: touches no static, only re-arms listening.
ErrorCallback(m) == m

\* ------------------------------------------------- the HAL's byte store
\* A byte stored past the end of rxBuff (rxBuff + off with off >= BUFFER_SIZE)
\* lands in whatever the build placed behind rxBuff: the first byte of
\* another static of this file (fakeVoltage is little-endian), or memory the
\* model does not hold.
OutOfBoundsStore(m, b) ==
    {m}
    \cup {[m EXCEPT !.rxBuffDataSize = b]}
    \cup {[m EXCEPT !.txBuff[0] = b]}
    \cup {[m EXCEPT !.requestedReg = b]}
    \cup {[m EXCEPT !.fakeVoltage = (@ \div Uint8Mod) * Uint8Mod + b]}
    \cup {[m EXCEPT !.slaveMode = b]}

\* The memories the HAL can leave after it stored byte b through the pointer
\* rxBuff + off of the armed receive.
HalStore(m, off, b) ==
    IF off \in BufIdx
    THEN {[m EXCEPT !.rxBuff[off] = b]}
    ELSE OutOfBoundsStore(m, b)

\* --------------------------------------------------- history variables
NoTxn == [kind |-> "none", bytes |-> <<>>, abort |-> FALSE]
BadTxn == [kind |-> "X", bytes |-> <<>>, abort |-> FALSE]
OverTxn == [kind |-> "WO", bytes |-> <<>>, abort |-> FALSE]
AbortedTxn == [kind |-> "none", bytes |-> <<>>, abort |-> TRUE]
NoDone == [set |-> NoVal, sel |-> FALSE, last |-> "other", reg |-> NoVal]

\* The bus events since the last stop, as a transaction in progress:
\* "none" nothing yet, "W" a write with the bytes sent so far (at most
\* BUFFER_SIZE), "WO" a write of more than BUFFER_SIZE bytes, "R" a read,
\* "RT" a read whose transmit completed, "X" any other sequence of events.
\* abort: an Error cut a transaction short since the last stop; of a write
\* that follows, only the first byte is followed.
TrackedBytes(t) == IF t.abort THEN 1 ELSE BUFFER_SIZE

TxnAfter(ev, b) ==
    CASE ev = "AddrWrite" -> IF txn.kind = "none"
                             THEN [kind |-> "W", bytes |-> <<>>, abort |-> txn.abort]
                             ELSE BadTxn
      [] ev = "AddrRead" -> IF txn.kind = "none"
                            THEN [kind |-> "R", bytes |-> <<>>, abort |-> txn.abort]
                            ELSE BadTxn
      [] ev = "ByteReceived" -> IF txn.kind = "W" /\ Len(txn.bytes) < TrackedBytes(txn)
                                THEN [txn EXCEPT !.bytes = Append(@, b)]
                                ELSE IF txn.kind \in {"W", "WO"} /\ ~txn.abort
                                     THEN OverTxn
                                     ELSE BadTxn
      [] ev = "TransferComplete" -> IF txn.kind = "R"
                                    THEN [txn EXCEPT !.kind = "RT"]
                                    ELSE BadTxn
      [] ev = "ListenComplete" -> NoTxn
      [] ev = "Error" -> IF txn = NoTxn THEN NoTxn ELSE AbortedTxn
      [] OTHER -> BadTxn

\* A write transaction that began right after a stop (or after
\* I2C_SLAVE_Init), with at most BUFFER_SIZE bytes so far.
IsCleanWrite(t) == t.kind = "W" /\ ~t.abort
\* The transaction is SET v: a write of [0x09, h, l].
IsSet(t) == IsCleanWrite(t) /\ Len(t.bytes) = 3 /\ t.bytes[1] = SET_VOLTAGE_REG
SetValue(t) == t.bytes[2] * Uint8Mod + t.bytes[3]
\* The transaction is the register select of a GET: a write of [0x08].
IsSelectGet(t) == IsCleanWrite(t) /\ t.bytes = <<GET_VOLTAGE_REG>>

\* The transaction is a write with a payload: [id, h, ...].
IsPayloadWrite(t) == IsCleanWrite(t) /\ Len(t.bytes) >= 2
\* The transaction is a read and nothing else.
IsCleanRead(t) == t.kind \in {"R", "RT"} /\ ~t.abort
\* The transaction carried no byte: a write of no byte, or a stop that
\* follows a stop.
IsEmpty(t) == (IsCleanWrite(t) /\ t.bytes = <<>>) \/ t = NoTxn

\* done.sel: the last completed transaction is write [0x08];
\* done.set: the value of the SET completed right before it (or, with
\* ~done.sel, of the SET completed last); NoVal if there is none;
\* done.last: the last completed transaction is a "payload" write, a
\* "select" (one-byte write), a "read", an "empty" one, or any "other";
\* done.reg: the first byte of that payload write, else NoVal.
\* Any event that is not part of a well-formed transaction forgets them.
DoneAfter(ev) ==
    IF ev = "ListenComplete"
    THEN CASE IsSet(txn) -> [set |-> SetValue(txn), sel |-> FALSE,
                             last |-> "payload", reg |-> txn.bytes[1]]
           [] IsSelectGet(txn) -> [set |-> IF done.sel THEN NoVal ELSE done.set, sel |-> TRUE,
                                   last |-> "select", reg |-> NoVal]
           [] IsPayloadWrite(txn) /\ ~IsSet(txn) ->
                  [NoDone EXCEPT !.last = "payload", !.reg = txn.bytes[1]]
           [] IsCleanWrite(txn) /\ Len(txn.bytes) = 1 /\ ~IsSelectGet(txn) ->
                  [NoDone EXCEPT !.last = "select"]
           [] IsCleanRead(txn) -> [NoDone EXCEPT !.last = "read"]
           [] IsEmpty(txn) -> [NoDone EXCEPT !.last = "empty"]
           [] OTHER -> NoDone
    ELSE IF TxnAfter(ev, 0).kind \in {"X", "WO"} \/ TxnAfter(ev, 0).abort THEN NoDone ELSE done

\* Since I2C_SLAVE_Init the bus has carried only complete register-only
\* writes (one byte) and complete reads.
PristineAfter(ev) ==
    IF ev = "ListenComplete"
    THEN pristine /\ ~txn.abort /\ \/ txn.kind = "W" /\ Len(txn.bytes) = 1
                                   \/ txn.kind \in {"R", "RT"}
    ELSE pristine /\ TxnAfter(ev, 0).kind \notin {"X", "WO"} /\ ~TxnAfter(ev, 0).abort

\* A handler is an interrupt: it runs once listening has been armed (after
\* the first statement of I2C_SLAVE_Init), between any two statements of
\* the main thread, and leaves the main thread where it is.
InterruptsMain ==
    /\ initPc # "L52"
    /\ initPc # "done" => raceEvents < MaxRaceEvents
    /\ raceEvents' = IF initPc = "done" THEN raceEvents ELSE raceEvents + 1
    /\ UNCHANGED initPc

Record(ev, b) ==
    /\ lastEvent' = ev
    /\ txn' = TxnAfter(ev, b)
    /\ done' = DoneAfter(ev)
    /\ pristine' = (PristineAfter(ev) /\ initPc = "done")
    /\ InterruptsMain

\* ---------------------------------------------------------------- Init
InitVoltageUnset ==
    /\ rxBuff = ZeroBuff
    /\ rxBuffDataSize = 0
    /\ txBuff = ZeroBuff
    /\ txBuffDataSize = 0
    /\ requestedReg = 0
    /\ fakeVoltage = 0
    /\ slaveMode = MODE_LISTENING
    /\ rxArmed = NoXfer
    /\ txArmed = FALSE
    /\ cmds = <<CmdListen>>
    /\ lastEvent = "Init"
    /\ txn = NoTxn
    /\ done = NoDone
    /\ pristine = TRUE
    /\ initPc = "done"
    /\ raceEvents = 0

\* The statics as initialised at their definitions, then I2C_SLAVE_Init.
Init ==
    /\ rxBuff = ZeroBuff
    /\ rxBuffDataSize = 0
    /\ txBuff = ZeroBuff
    /\ txBuffDataSize = 0
    /\ requestedReg = 0
    /\ fakeVoltage = InitialVoltage
    /\ slaveMode = MODE_LISTENING
    /\ rxArmed = NoXfer
    /\ txArmed = FALSE
    /\ cmds = <<CmdListen>>
    /\ lastEvent = "Init"
    /\ txn = NoTxn
    /\ done = NoDone
    /\ pristine = TRUE
    /\ initPc = "done"
    /\ raceEvents = 0

\* ------------------------------------------------------------- actions
\* AddressMatched(controller-will-read)
AddrRead ==
    /\ SetMem(AddrCallbackRead(Mem))
    /\ cmds' = AddrCallbackReadCmds(Mem)
    /\ txArmed' = TRUE
    /\ UNCHANGED rxArmed
    /\ Record("AddrRead", 0)

\* AddressMatched(controller-will-write)
AddrWrite ==
    /\ SetMem(AddrCallbackWrite(Mem))
    /\ cmds' = <<CmdReceive(AddrCallbackWriteOffset(Mem))>>
    /\ rxArmed' = {AddrCallbackWriteOffset(Mem)}
    /\ UNCHANGED txArmed
    /\ Record("AddrWrite", 0)

\* ByteReceived: the HAL stores the byte of the armed receive, then calls
\* HAL_I2C_SlaveRxCpltCallback.
ByteReceived ==
    /\ rxArmed # NoXfer
    /\ rxBuffDataSize < MaxRxCount
    /\ \E b \in Bytes :
         /\ \E off \in rxArmed :
            \E m1 \in HalStore(Mem, off, b) :
              LET m2 == SlaveRxCpltCallback(m1)
              IN  /\ SetMem(m2)
                  /\ IF RxCpltRearms(m2)
                     THEN /\ cmds' = <<CmdReceive(m2.rxBuffDataSize)>>
                          /\ rxArmed' = {m2.rxBuffDataSize}
                     ELSE /\ cmds' = <<>>
                          /\ rxArmed' = NoXfer
         /\ Record("ByteReceived", b)
    /\ UNCHANGED txArmed

\* TransferComplete(transmit)
TransferComplete ==
    /\ txArmed
    /\ SetMem(SlaveTxCpltCallback(Mem))
    /\ cmds' = <<>>
    /\ txArmed' = FALSE
    /\ UNCHANGED rxArmed
    /\ Record("TransferComplete", 0)

\* ListenComplete (stop condition): the HAL ends the transfer in flight and
\* leaves listen mode before it calls HAL_I2C_ListenCpltCallback.
ListenComplete ==
    /\ SetMem(ListenCpltCallback(Mem))
    /\ cmds' = <<CmdListen>>
    /\ rxArmed' = NoXfer
    /\ txArmed' = FALSE
    /\ Record("ListenComplete", 0)

\* Error (bus fault): the HAL aborts the transfer in flight before it calls
\* HAL_I2C_ErrorCallback.
Error ==
    /\ SetMem(ErrorCallback(Mem))
    /\ cmds' = <<CmdListen>>
    /\ rxArmed' = NoXfer
    /\ txArmed' = FALSE
    /\ Record("Error", 0)

Next ==
    \/ AddrRead
    \/ AddrWrite
    \/ ByteReceived
    \/ TransferComplete
    \/ ListenComplete
    \/ Error

Spec == Init /\ [][Next]_vars

\* ------------------------------------------ I2C_SLAVE_Init called again
\* One whole call of I2C_SLAVE_Init that no handler interrupts, made by the
\* application in any state.  HAL_I2C_EnableListen_IT leaves the armed
\* transfers alone; the call assigns requestedReg, fakeVoltage and slaveMode
\* and no other static.
InitCallMem(m) ==
    [m EXCEPT !.requestedReg = 0,
              !.fakeVoltage = InitialVoltage,
              !.slaveMode = MODE_LISTENING]

I2C_SLAVE_Init ==
    /\ initPc = "done"
    /\ SetMem(InitCallMem(Mem))
    /\ cmds' = <<CmdListen>>
    /\ UNCHANGED <<rxArmed, txArmed>>
    /\ lastEvent' = "Init"
    /\ txn' = IF txn = NoTxn THEN NoTxn ELSE BadTxn
    /\ done' = NoDone
    /\ pristine' = FALSE
    /\ UNCHANGED boot

NextReinit ==
    \/ Next
    \/ I2C_SLAVE_Init

SpecReinit == Init /\ [][NextReinit]_vars

\* ------------------------------- I2C_SLAVE_Init statement by statement
\* The state before main calls I2C_SLAVE_Init: the statics as initialised at
\* their definitions (slaveMode, requestedReg and fakeVoltage have no
\* initialiser and are zero), the peripheral not listening.
InitBoot ==
    /\ rxBuff = ZeroBuff
    /\ rxBuffDataSize = 0
    /\ txBuff = ZeroBuff
    /\ txBuffDataSize = 0
    /\ requestedReg = 0
    /\ fakeVoltage = 0
    /\ slaveMode = 0
    /\ rxArmed = NoXfer
    /\ txArmed = FALSE
    /\ cmds = <<>>
    /\ lastEvent = "Init"
    /\ txn = NoTxn
    /\ done = NoDone
    /\ pristine = TRUE
    /\ initPc = "L52"
    /\ raceEvents = 0

\* What a statement of I2C_SLAVE_Init leaves of the history: the bus
\* transaction in flight is not its business.
InitStatement(pc, next) ==
    /\ initPc = pc
    /\ initPc' = next
    /\ raceEvents' = IF next = "done" THEN 0 ELSE raceEvents
    /\ lastEvent' = "Init"
    /\ done' = NoDone
    /\ UNCHANGED <<txn, pristine, rxArmed, txArmed>>

\* HAL_I2C_EnableListen_IT(&hi2c1);
InitEnableListen ==
    /\ InitStatement("L52", "L54")
    /\ cmds' = <<CmdListen>>
    /\ UNCHANGED statics

\* requestedReg = 0;
InitRequestedReg ==
    /\ InitStatement("L54", "L55")
    /\ SetMem([Mem EXCEPT !.requestedReg = 0])
    /\ cmds' = <<>>

\* fakeVoltage = 3542;
InitFakeVoltage ==
    /\ InitStatement("L55", "L56")
    /\ SetMem([Mem EXCEPT !.fakeVoltage = InitialVoltage])
    /\ cmds' = <<>>

\* slaveMode = MODE_LISTENING;
InitSlaveMode ==
    /\ InitStatement("L56", "done")
    /\ SetMem([Mem EXCEPT !.slaveMode = MODE_LISTENING])
    /\ cmds' = <<>>

NextBoot ==
    \/ Next
    \/ InitEnableListen
    \/ InitRequestedReg
    \/ InitFakeVoltage
    \/ InitSlaveMode

SpecBoot == InitBoot /\ [][NextBoot]_vars

\* ===================================================================
\* Claims
\* ===================================================================
IsReceive(c) == c.op = "beginReceive"

\* C1: in every reachable state the inbound fill count rxBuffDataSize is in
\* 0..BUFFER_SIZE, also after a write of more than BUFFER_SIZE bytes.
C1_FillCountWithinCapacity == rxBuffDataSize \in 0 .. BUFFER_SIZE

\* C2: reception beyond capacity is rejected: every beginReceive command a
\* handler issues has its offset inside the inbound buffer (0..4), and none
\* is issued once the fill count has reached the capacity.
C2_ReceiveInsideBuffer ==
    \A i \in 1 .. Len(cmds) :
        IsReceive(cmds[i]) => cmds[i].off \in BufIdx /\ rxBuffDataSize < BUFFER_SIZE

\* C3: right after every ListenComplete the mode is Listening, the inbound
\* fill count is 0 with the inbound contents all zero, and the outbound fill
\* count is 0.
C3_AfterListenComplete ==
    lastEvent = "ListenComplete" =>
        /\ slaveMode = MODE_LISTENING
        /\ rxBuffDataSize = 0
        /\ rxBuff = ZeroBuff
        /\ txBuffDataSize = 0

\* C4: right after every Error the mode is Listening, both fill counts are
\* 0, and listening has been re-armed exactly once.
C4_AfterError ==
    lastEvent = "Error" =>
        /\ slaveMode = MODE_LISTENING
        /\ rxBuffDataSize = 0
        /\ txBuffDataSize = 0
        /\ cmds = <<CmdListen>>

\* C5: a write cut short by an Error is abandoned: when the stop closes the
\* next write transaction, a one-byte write [b] that began after the Error,
\* RequestedRegister is b, the first byte of that transaction, and
\* DeviceState is what it was (a register-only write carries no payload).
C5_AbortedWriteAbandoned ==
    [][(/\ lastEvent' = "ListenComplete"
        /\ txn.kind = "W"
        /\ txn.abort
        /\ Len(txn.bytes) = 1)
       => (requestedReg' = txn.bytes[1] /\ fakeVoltage' = fakeVoltage)]_vars

\* C6: round trip: SET v = write [0x09, v>>8, v&0xFF] + stop, then
\* GET = write [0x08] + stop + AddressMatched(read), begun in any state
\* that a stop left, queues exactly the two bytes [v>>8, v&0xFF] for
\* transmission; and decoding then encoding is the identity on every pair
\* of byte values.
C6_SetGetRoundTrip ==
    /\ (txn.kind = "R" /\ ~txn.abort /\ done.sel /\ done.set # NoVal) =>
          /\ txBuff[0] = done.set \div Uint8Mod
          /\ txBuff[1] = done.set % Uint8Mod
          /\ txBuffDataSize = TxResponseSize
          /\ cmds = <<CmdTransmit(TxResponseSize)>>
    /\ lastEvent = "Init" =>
          \A h \in 0 .. (Uint8Mod - 1), l \in 0 .. (Uint8Mod - 1) :
              BuildResponse(GET_VOLTAGE_REG, DecodeVoltage(h, l)) = <<h, l>>

\* The SET of 0x0809 and the select of 0x08 are complete and the read has
\* been addressed.
C6_Witness ==
    /\ txn.kind = "R"
    /\ ~txn.abort
    /\ done.sel
    /\ done.set = GET_VOLTAGE_REG * Uint8Mod + SET_VOLTAGE_REG
    /\ txBuff[0] = GET_VOLTAGE_REG
    /\ txBuff[1] = SET_VOLTAGE_REG

\* The payload of a write [id, h, l, ...]: h is the high byte, l the low
\* byte; a write [id, h] has no low byte, and its low byte reads as 0.
PayloadValue(bytes) ==
    bytes[2] * Uint8Mod + (IF Len(bytes) >= 3 THEN bytes[3] ELSE 0)

\* C7: when the stop closes a write transaction of 2..BUFFER_SIZE bytes
\* whose first byte is 0x09, DeviceState becomes the big-endian value of the
\* second (high) and third (low) byte received in that transaction; the
\* decoding is big-endian for every pair of byte values.
C7_SetDecodesBigEndian ==
    /\ \A h \in 0 .. (Uint8Mod - 1), l \in 0 .. (Uint8Mod - 1) :
          DecodeVoltage(h, l) = PayloadValue(<<SET_VOLTAGE_REG, h, l>>)
    /\ [][(/\ lastEvent' = "ListenComplete"
           /\ IsCleanWrite(txn)
           /\ Len(txn.bytes) >= 2
           /\ txn.bytes[1] = SET_VOLTAGE_REG)
          => fakeVoltage' = PayloadValue(txn.bytes)]_vars

\* A SET of 0x0908 has just been closed by the stop.
C7_Witness ==
    /\ lastEvent = "ListenComplete"
    /\ ~done.sel
    /\ done.set = SET_VOLTAGE_REG * Uint8Mod + GET_VOLTAGE_REG
    /\ fakeVoltage = SET_VOLTAGE_REG * Uint8Mod + GET_VOLTAGE_REG

\* C8: when the stop closes a write transaction of exactly one byte b,
\* RequestedRegister becomes b and DeviceState does not change.
C8_RegisterOnlyWrite ==
    [][(/\ lastEvent' = "ListenComplete"
        /\ IsCleanWrite(txn)
        /\ Len(txn.bytes) = 1)
       => (requestedReg' = txn.bytes[1] /\ fakeVoltage' = fakeVoltage)]_vars

\* A write [0x08] has just been closed by the stop while DeviceState holds
\* a value set earlier.
C8_Witness ==
    /\ lastEvent = "ListenComplete"
    /\ done.sel
    /\ requestedReg = GET_VOLTAGE_REG
    /\ fakeVoltage = SET_VOLTAGE_REG * Uint8Mod + GET_VOLTAGE_REG

\* C9: AddressMatched(read) always queues exactly 2 bytes, and when
\* RequestedRegister is not 0x08 they are 0xFF, 0xFF whatever DeviceState
\* is; the response is 0xFF, 0xFF for every register id other than 0x08.
C9_UnknownRegisterResponse ==
    /\ \A r \in (0 .. (Uint8Mod - 1)) \ {GET_VOLTAGE_REG} :
          \A v \in {0, InitialVoltage, Uint16Mod - 1} :
              BuildResponse(r, v) = <<UnknownRegByte, UnknownRegByte>>
    /\ [][lastEvent' = "AddrRead"
          => /\ txBuffDataSize' = TxResponseSize
             /\ cmds' = <<CmdTransmit(TxResponseSize)>>
             /\ requestedReg # GET_VOLTAGE_REG =>
                   /\ txBuff'[0] = UnknownRegByte
                   /\ txBuff'[1] = UnknownRegByte]_vars

\* A bare read right after a completed SET (RequestedRegister was 0x09) has
\* queued 0xFF, 0xFF.
C9_Witness ==
    /\ txn.kind = "R"
    /\ ~done.sel
    /\ done.set = GET_VOLTAGE_REG * Uint8Mod + SET_VOLTAGE_REG
    /\ txBuff[0] = UnknownRegByte
    /\ txBuff[1] = UnknownRegByte

\* C10: while the bus has carried only register-only writes and reads since
\* I2C_SLAVE_Init, every GET of register 0x08 queues 3542 as 0x0D, 0xD6.
C10_DefaultValue ==
    (pristine /\ txn.kind = "R" /\ done.sel) =>
        /\ txBuff[0] = InitialVoltage \div Uint8Mod
        /\ txBuff[1] = InitialVoltage % Uint8Mod
        /\ txBuff[0] = 13
        /\ txBuff[1] = 214
        /\ txBuffDataSize = TxResponseSize
        /\ cmds = <<CmdTransmit(TxResponseSize)>>

\* A GET of 0x08 has been addressed in a session of register-only writes
\* and reads.
C10_Witness == pristine /\ txn.kind = "R" /\ done.sel /\ txBuff[1] = 214

\* C11: one call of I2C_SLAVE_Init, made in any reachable state, leaves
\* requestedReg = 0, fakeVoltage = 3542, mode Listening, both buffer
\* fill counts 0 and listening armed.
C11_InitResetsAllState ==
    lastEvent = "Init" =>
        /\ requestedReg = 0
        /\ fakeVoltage = InitialVoltage
        /\ slaveMode = MODE_LISTENING
        /\ rxBuffDataSize = 0
        /\ txBuffDataSize = 0
        /\ cmds = <<CmdListen>>

\* C12: fakeVoltage changes only in HAL_I2C_ListenCpltCallback, and only when
\* the write it closes carries 2 or more bytes whose first byte is
\* SET_VOLTAGE_REG; every other step leaves fakeVoltage unchanged.
C12_VoltageChangesOnlyOnSet ==
    [][fakeVoltage' # fakeVoltage =>
          /\ lastEvent' = "ListenComplete"
          /\ rxBuffDataSize >= 2
          /\ rxBuff[0] = SET_VOLTAGE_REG]_vars

\* C13: HAL_I2C_AddrCallback with the controller reading sets mode
\* Transmitting, loads the response for the current requestedReg into txBuff,
\* and makes exactly one HAL call: a transmit of txBuffDataSize = 2 bytes
\* marked as the last frame (no receive, no listen).
C13_AddrReadTransmitsResponse ==
    [][lastEvent' = "AddrRead" =>
          /\ slaveMode' = MODE_TRANSMITTING
          /\ txBuffDataSize' = 2
          /\ IF requestedReg = GET_VOLTAGE_REG
             THEN txBuff'[0] = fakeVoltage \div 256 /\ txBuff'[1] = fakeVoltage % 256
             ELSE txBuff'[0] = 255 /\ txBuff'[1] = 255
          /\ Len(cmds') = 1
          /\ cmds'[1].op = "beginTransmit"
          /\ cmds'[1].count = txBuffDataSize'
          /\ cmds'[1].final]_vars

\* A read has been addressed while register 0x08 was selected and the
\* voltage was the initial one: the response 0x0D, 0xD6 is being sent.
C13_Witness ==
    /\ lastEvent = "AddrRead"
    /\ slaveMode = MODE_TRANSMITTING
    /\ txBuff[0] = 13 /\ txBuff[1] = 214
    /\ cmds = <<CmdTransmit(2)>>

\* C14: a read consumes requestedReg: HAL_I2C_AddrCallback with the
\* controller reading leaves requestedReg = 0; requestedReg then leaves 0
\* only in a HAL_I2C_ListenCpltCallback that closes a write of at least one
\* byte; so a read transaction that follows a read transaction, stop to
\* stop, responds 0xFF, 0xFF.
C14_ReadConsumesRegister ==
    [][/\ lastEvent' = "AddrRead" => requestedReg' = 0
       /\ (requestedReg = 0 /\ requestedReg' # 0) =>
              (lastEvent' = "ListenComplete" /\ rxBuffDataSize >= 1)
       /\ (lastEvent' = "AddrRead" /\ txn = NoTxn /\ done.last = "read") =>
              (txBuff'[0] = 255 /\ txBuff'[1] = 255)]_vars

\* C15: HAL_I2C_AddrCallback with the controller writing sets mode Receiving
\* and makes exactly one HAL call: a receive of 1 byte, not the last frame,
\* at offset rxBuffDataSize; it leaves rxBuffDataSize and rxBuff as they
\* are, and a non-zero rxBuffDataSize goes back to 0 only in
\* HAL_I2C_ListenCpltCallback.
C15_AddrWriteKeepsBuffer ==
    [][/\ lastEvent' = "AddrWrite" =>
              /\ slaveMode' = MODE_RECEIVING
              /\ cmds' = <<[op |-> "beginReceive", off |-> rxBuffDataSize,
                            count |-> 1, final |-> FALSE]>>
              /\ rxBuffDataSize' = rxBuffDataSize
              /\ rxBuff' = rxBuff
       /\ (rxBuffDataSize # 0 /\ rxBuffDataSize' = 0) => lastEvent' = "ListenComplete"]_vars

\* A write has been addressed while the buffer already held one byte (a
\* repeated start, or a write after an error): the byte is still there and
\* the receive is armed behind it.
C15_Witness ==
    /\ lastEvent = "AddrWrite"
    /\ rxBuffDataSize = 1
    /\ rxBuff[0] = SET_VOLTAGE_REG
    /\ cmds = <<CmdReceive(1)>>

\* C16: HAL_I2C_SlaveRxCpltCallback adds exactly 1 to the rxBuffDataSize it
\* finds (the memory as the HAL's byte store left it), and makes one HAL
\* call, a receive of 1 byte, not the last frame, at the new rxBuffDataSize,
\* if and only if it finds mode Receiving; in any other mode it makes no
\* HAL call.
C16_ByteReceivedRearmsWhileReceiving ==
    [][lastEvent' = "ByteReceived" =>
          \E off \in rxArmed : \E b \in Bytes : \E entry \in HalStore(Mem, off, b) :
             /\ rxBuffDataSize' = entry.rxBuffDataSize + 1
             /\ rxBuff' = entry.rxBuff
             /\ slaveMode' = entry.slaveMode
             /\ entry.slaveMode = MODE_RECEIVING =>
                    cmds' = <<[op |-> "beginReceive", off |-> rxBuffDataSize',
                               count |-> 1, final |-> FALSE]>>
             /\ entry.slaveMode # MODE_RECEIVING => cmds' = <<>>]_vars

\* A byte of a write completed after the read address of a repeated start
\* had been handled: it was counted and no receive was armed.
C16_Witness ==
    /\ lastEvent = "ByteReceived"
    /\ slaveMode = MODE_TRANSMITTING
    /\ rxBuffDataSize = 1
    /\ cmds = <<>>

\* C17: a write with a payload stores its register id whatever the id is:
\* when HAL_I2C_ListenCpltCallback closes a write of 2 or more bytes with
\* first byte R it leaves requestedReg = R, and a read addressed right after
\* that stop gets the response of register R (the voltage for 0x08,
\* 0xFF, 0xFF for 0x09), not that of register 0.
C17_PayloadWriteSelectsRegister ==
    [][/\ (lastEvent' = "ListenComplete" /\ IsPayloadWrite(txn)) =>
              requestedReg' = txn.bytes[1]
       /\ (lastEvent' = "AddrRead" /\ txn = NoTxn /\ done.last = "payload") =>
              IF done.reg = GET_VOLTAGE_REG
              THEN txBuff'[0] = fakeVoltage \div 256 /\ txBuff'[1] = fakeVoltage % 256
              ELSE txBuff'[0] = 255 /\ txBuff'[1] = 255]_vars

\* The write [0x08, 0x08, ...] was closed by a stop and a read was addressed
\* right after it: the response is the voltage that write stored (high
\* byte 0x08), not 0xFF, 0xFF.
C17_Witness ==
    /\ lastEvent = "AddrRead"
    /\ txn.kind = "R"
    /\ done.last = "payload"
    /\ done.reg = GET_VOLTAGE_REG
    /\ txBuff[0] = 8

\* C18: a transaction of zero bytes (a write address directly followed by
\* the stop, or a stop with no address match before it) selects nothing and
\* carries nothing: HAL_I2C_ListenCpltCallback leaves fakeVoltage and
\* requestedReg as they were, sets mode Listening and re-arms listening.
C18_EmptyWriteChangesNothing ==
    [][(lastEvent' = "ListenComplete" /\ IsEmpty(txn)) =>
          /\ fakeVoltage' = fakeVoltage
          /\ requestedReg' = requestedReg
          /\ slaveMode' = MODE_LISTENING
          /\ cmds' = <<CmdListen>>]_vars

\* A stop closed a transaction of zero bytes while register 0x08 was
\* selected: the selection is still there.
C18_Witness ==
    /\ lastEvent = "ListenComplete"
    /\ done.last = "empty"
    /\ requestedReg = GET_VOLTAGE_REG
    /\ slaveMode = MODE_LISTENING

\* C19: I2C_SLAVE_Init is safe against the handlers that run between its
\* statements: when it returns, mode agrees with the transaction in flight
\* (Receiving while a write is open), and its assignments overwrite no
\* requestedReg or fakeVoltage a handler stored (before the call both are
\* zero, so a non-zero value is a handler's).
C19_InitSafeAgainstBusEvents ==
    [][initPc' # initPc =>
          /\ (initPc' = "done" /\ txn.kind = "W") => slaveMode' = MODE_RECEIVING
          /\ requestedReg # 0 => requestedReg' = requestedReg
          /\ fakeVoltage # 0 => fakeVoltage' = fakeVoltage]_vars

====
